---- MODULE Spec2Model ----
(***************************************************************************)
(* Verification model of the BRV32P firmware generator                     *)
(* (firmware/gen_firmware.py) and of the cocotb testbench                  *)
(* (cocotb/test_brv32p_soc.py).                                            *)
(*                                                                         *)
(* Python integers that can exceed 31 bits (instruction words) are kept as *)
(* the set of the bit positions that hold a 1; operands, which fit a       *)
(* machine integer, are kept as integers.                                  *)
(***************************************************************************)
EXTENDS Integers, Naturals, Sequences, FiniteSets, TLC

VARIABLES enc, epc, word,                       \* one call of a format encoder
          program, gpc, gi, hexfile, stdout,    \* the generator script
          cpu, imem, pc_if, regs, mem, mcycle, taken,  \* a core running the image
          dregs, regs_present, seen,            \* the register file the testbench sees
          test, spc, absent, pins, clock_on, ncyc, rdval, excn, count, si,  \* a scenario
          wkind, widx, wval, wtimeout, wpc, wi, ok, warned, sample,  \* one waiter call
          outcome,                              \* the calling scenario
          edges, nsamples, firstMatch, matchAtCall, \* history of the call
          rst_cycles, tedges, released, hvisited, hsat, hraised  \* history of the scenario

encVars == <<enc, epc, word>>
genVars == <<program, gpc, gi, hexfile, stdout>>
cpuVars == <<cpu, imem, pc_if, regs, mem, mcycle, taken>>
dutVars == <<dregs, regs_present, seen>>
scnVars == <<test, spc, absent, pins, clock_on, ncyc, rdval, excn, count, si>>
waitVars == <<wkind, widx, wval, wtimeout, wpc, wi, ok, warned, sample>>
histVars == <<edges, nsamples, firstMatch, matchAtCall>>
scnHist == <<rst_cycles, tedges, released, hvisited, hsat, hraised>>
tbVars == <<dutVars, waitVars, outcome, histVars, scnVars, scnHist>>
vars == <<encVars, genVars, cpuVars, tbVars>>

(***************************************************************************)
(* Python integer operators                                                *)
(***************************************************************************)

\* 2^n for 0 <= n <= 30
Pow2(n) == 2 ^ n

\* bit i of the two's complement form of the integer x (x within 32 bits signed)
Bit(x, i) == IF i >= 31 THEN (IF x < 0 THEN 1 ELSE 0) ELSE (x \div Pow2(i)) % 2

\* the bits of a non-negative integer
Bits(x) == {i \in 0..30 : Bit(x, i) = 1}

\* x >> n on an integer (arithmetic shift: floor division)
Shr(x, n) == x \div Pow2(n)

\* x & m, x an integer, m a non-negative mask given by its bits
BitAnd(x, m) == {i \in m : Bit(x, i) = 1}

\* b << n on a non-negative value given by its bits
Shl(b, n) == {i + n : i \in b}

\* a | b on non-negative values given by their bits
BitOr(a, b) == a \cup b

\* the integer value of bits lo .. lo+n-1 of a word, n <= 31
RECURSIVE FieldSum(_, _, _)
FieldSum(w, lo, k) ==
    IF k < 0 THEN 0
    ELSE (IF lo + k \in w THEN Pow2(k) ELSE 0) + FieldSum(w, lo, k - 1)

Field(w, lo, n) == FieldSum(w, lo, n - 1)

(***************************************************************************)
(* The six format encoders: gen_firmware.py lines 4-31                     *)
(***************************************************************************)

r_type(funct7, rs2, rs1, funct3, rd, opcode) ==
    BitOr(Shl(Bits(funct7), 25), BitOr(Shl(Bits(rs2), 20), BitOr(Shl(Bits(rs1), 15),
    BitOr(Shl(Bits(funct3), 12), BitOr(Shl(Bits(rd), 7), Bits(opcode))))))

\* i_type that shifts the immediate without masking it to 12 bits
i_type_nomask(imm, rs1, funct3, rd, opcode) ==
    BitOr(Shl(Bits(imm), 20), BitOr(Shl(Bits(rs1), 15),
    BitOr(Shl(Bits(funct3), 12), BitOr(Shl(Bits(rd), 7), Bits(opcode)))))

i_type(imm, rs1, funct3, rd, opcode) ==
    BitOr(Shl(BitAnd(imm, Bits(4095)), 20), BitOr(Shl(Bits(rs1), 15),
    BitOr(Shl(Bits(funct3), 12), BitOr(Shl(Bits(rd), 7), Bits(opcode)))))

\* s_type that takes imm[11:5] without shifting the immediate down
s_type_noshift(imm, rs2, rs1, funct3, opcode) ==
    LET imm11_5 == BitAnd(imm, Bits(127))
        imm4_0  == BitAnd(imm, Bits(31))
    IN  BitOr(Shl(imm11_5, 25), BitOr(Shl(Bits(rs2), 20), BitOr(Shl(Bits(rs1), 15),
        BitOr(Shl(Bits(funct3), 12), BitOr(Shl(imm4_0, 7), Bits(opcode))))))

s_type(imm, rs2, rs1, funct3, opcode) ==
    LET imm11_5 == BitAnd(Shr(imm, 5), Bits(127))
        imm4_0  == BitAnd(imm, Bits(31))
    IN  BitOr(Shl(imm11_5, 25), BitOr(Shl(Bits(rs2), 20), BitOr(Shl(Bits(rs1), 15),
        BitOr(Shl(Bits(funct3), 12), BitOr(Shl(imm4_0, 7), Bits(opcode))))))

\* b_type that stores imm[3:0] instead of imm[4:1]
b_type_lsb(imm, rs2, rs1, funct3, opcode) ==
    LET imm12   == BitAnd(Shr(imm, 12), Bits(1))
        imm10_5 == BitAnd(Shr(imm, 5), Bits(63))
        imm4_1  == BitAnd(imm, Bits(15))
        imm11   == BitAnd(Shr(imm, 11), Bits(1))
    IN  BitOr(Shl(imm12, 31), BitOr(Shl(imm10_5, 25), BitOr(Shl(Bits(rs2), 20),
        BitOr(Shl(Bits(rs1), 15), BitOr(Shl(Bits(funct3), 12),
        BitOr(Shl(imm4_1, 8), BitOr(Shl(imm11, 7), Bits(opcode))))))))

b_type(imm, rs2, rs1, funct3, opcode) ==
    LET imm12   == BitAnd(Shr(imm, 12), Bits(1))
        imm10_5 == BitAnd(Shr(imm, 5), Bits(63))
        imm4_1  == BitAnd(Shr(imm, 1), Bits(15))
        imm11   == BitAnd(Shr(imm, 11), Bits(1))
    IN  BitOr(Shl(imm12, 31), BitOr(Shl(imm10_5, 25), BitOr(Shl(Bits(rs2), 20),
        BitOr(Shl(Bits(rs1), 15), BitOr(Shl(Bits(funct3), 12),
        BitOr(Shl(imm4_1, 8), BitOr(Shl(imm11, 7), Bits(opcode))))))))

\* 0xFFFFF000
MaskUpper20 == Shl(Bits(1048575), 12)

u_type(imm, rd, opcode) ==
    BitOr(BitAnd(imm, MaskUpper20), BitOr(Shl(Bits(rd), 7), Bits(opcode)))

\* j_type with imm[11] and imm[19:12] placed the other way round
j_type_swapped(imm, rd, opcode) ==
    LET imm20    == BitAnd(Shr(imm, 20), Bits(1))
        imm10_1  == BitAnd(Shr(imm, 1), Bits(1023))
        imm11    == BitAnd(Shr(imm, 11), Bits(1))
        imm19_12 == BitAnd(Shr(imm, 12), Bits(255))
    IN  BitOr(Shl(imm20, 31), BitOr(Shl(imm10_1, 21), BitOr(Shl(imm19_12, 13),
        BitOr(Shl(imm11, 12), BitOr(Shl(Bits(rd), 7), Bits(opcode))))))

j_type(imm, rd, opcode) ==
    LET imm20    == BitAnd(Shr(imm, 20), Bits(1))
        imm10_1  == BitAnd(Shr(imm, 1), Bits(1023))
        imm11    == BitAnd(Shr(imm, 11), Bits(1))
        imm19_12 == BitAnd(Shr(imm, 12), Bits(255))
    IN  BitOr(Shl(imm20, 31), BitOr(Shl(imm10_1, 21), BitOr(Shl(imm11, 20),
        BitOr(Shl(imm19_12, 12), BitOr(Shl(Bits(rd), 7), Bits(opcode))))))

(***************************************************************************)
(* Operands the encoders are called with.  One field at a time runs over   *)
(* its whole range while the others sit at an extreme of theirs; the       *)
(* immediate always runs over its whole list.                              *)
(***************************************************************************)

RegIdx == 0..31
Funct3 == 0..7
Funct7 == 0..127

ImmI == {0, -1, -2048, 2047, 42, 268, 2048, -2049, 4101}
ImmB == {0, -1, -2, -4096, 4094, 8, -4, 1, 4095, 4097, 8192, -4097}
ImmJ == {0, -1, -2, -1048576, 1048574, 8, -4, 1, 2049, 1048577, 2097152, -1048577}
ImmU == {0, -1, -4096, -2147483647 - 1, 2147479552, 268435456, 536870912, 74565}

OpsI == {19, 3, 103}
OpsU == {55, 23}

\* the records that differ from a corner record in at most one of the swept fields
Sweep(corners, f7s, rs2s, rs1s, f3s, rds) ==
    UNION { {[c EXCEPT !.funct7 = v] : v \in f7s} \cup {[c EXCEPT !.rs2 = v] : v \in rs2s}
            \cup {[c EXCEPT !.rs1 = v] : v \in rs1s} \cup {[c EXCEPT !.funct3 = v] : v \in f3s}
            \cup {[c EXCEPT !.rd = v] : v \in rds} : c \in corners }

Corners(fmt, imms, f7s, rs2s, rs1s, f3s, rds, ops) ==
    [fmt : {fmt}, imm : imms, funct7 : f7s, rs2 : rs2s, rs1 : rs1s, funct3 : f3s,
     rd : rds, opcode : ops]

CallsR == Sweep(Corners("R", {0}, {0, 127}, {0, 31}, {0, 31}, {0, 7}, {0, 31}, {51}),
                Funct7, RegIdx, RegIdx, Funct3, RegIdx)
CallsI == Sweep(Corners("I", ImmI, {0}, {0}, {0, 31}, {0, 7}, {0, 31}, OpsI),
                {}, {}, RegIdx, Funct3, RegIdx)
CallsS == Sweep(Corners("S", ImmI, {0}, {0, 31}, {0, 31}, {0, 7}, {0}, {35}),
                {}, RegIdx, RegIdx, Funct3, {})
CallsB == Sweep(Corners("B", ImmB, {0}, {0, 31}, {0, 31}, {0, 7}, {0}, {99}),
                {}, RegIdx, RegIdx, Funct3, {})
CallsU == Sweep(Corners("U", ImmU, {0}, {0}, {0}, {0}, {0, 31}, OpsU),
                {}, {}, {}, {}, RegIdx)
CallsJ == Sweep(Corners("J", ImmJ, {0}, {0}, {0}, {0}, {0, 31}, {111}),
                {}, {}, {}, {}, RegIdx)

(***************************************************************************)
(* Encoder calls                                                           *)
(***************************************************************************)

AllCalls == CallsR \cup CallsI \cup CallsS \cup CallsB \cup CallsU \cup CallsJ

\* the script before its first statement, the core before the image is loaded
GenIdle ==
    /\ program = <<>> /\ gpc = "build" /\ gi = 0 /\ hexfile = <<>> /\ stdout = <<>>
CpuIdle ==
    /\ cpu = "off" /\ imem = <<>> /\ pc_if = 0 /\ regs = [r \in 0..31 |-> 0] /\ mem = <<>>
    /\ mcycle = 0 /\ taken = {}

\* the testbench before any scenario has started
TbIdle ==
    /\ dregs = [r \in 0..31 |-> [known |-> TRUE, v |-> 0]] /\ regs_present = TRUE
    /\ seen = {}
    /\ test = 0 /\ spc = 1 /\ absent = {} /\ clock_on = FALSE /\ ncyc = 0
    /\ pins = [rst_n |-> "z", uart_rx |-> "z", gpio_in |-> [known |-> FALSE, v |-> {}]]
    /\ rdval = 0 /\ excn = "" /\ count = 0 /\ si = 0
    /\ wkind = "wait_reg" /\ widx = 0 /\ wval = 0 /\ wtimeout = 0 /\ wpc = "idle"
    /\ wi = 0 /\ ok = "none" /\ warned = FALSE /\ sample = [raised |-> "", v |-> 0]
    /\ outcome = "idle"
    /\ edges = 0 /\ nsamples = 0 /\ firstMatch = 0 /\ matchAtCall = FALSE
    /\ rst_cycles = 10 /\ tedges = 0 /\ released = FALSE /\ hvisited = 0 /\ hsat = 0
    /\ hraised = FALSE

\* the operands of one call are fixed when it is made; epc is "call" before the
\* encoder has run and "ret" once word holds its result
InitEnc == enc \in AllCalls /\ epc = "call" /\ word = {} /\ GenIdle /\ CpuIdle /\ TbIdle

EncodeR ==
    /\ epc = "call" /\ enc.fmt = "R"
    /\ word' = r_type(enc.funct7, enc.rs2, enc.rs1, enc.funct3, enc.rd, enc.opcode)
    /\ epc' = "ret" /\ UNCHANGED <<enc, genVars, cpuVars, tbVars>>

EncodeI ==
    /\ epc = "call" /\ enc.fmt = "I"
    /\ word' = i_type(enc.imm, enc.rs1, enc.funct3, enc.rd, enc.opcode)
    /\ epc' = "ret" /\ UNCHANGED <<enc, genVars, cpuVars, tbVars>>

EncodeS ==
    /\ epc = "call" /\ enc.fmt = "S"
    /\ word' = s_type(enc.imm, enc.rs2, enc.rs1, enc.funct3, enc.opcode)
    /\ epc' = "ret" /\ UNCHANGED <<enc, genVars, cpuVars, tbVars>>

EncodeB ==
    /\ epc = "call" /\ enc.fmt = "B"
    /\ word' = b_type(enc.imm, enc.rs2, enc.rs1, enc.funct3, enc.opcode)
    /\ epc' = "ret" /\ UNCHANGED <<enc, genVars, cpuVars, tbVars>>

EncodeU ==
    /\ epc = "call" /\ enc.fmt = "U"
    /\ word' = u_type(enc.imm, enc.rd, enc.opcode)
    /\ epc' = "ret" /\ UNCHANGED <<enc, genVars, cpuVars, tbVars>>

EncodeJ ==
    /\ epc = "call" /\ enc.fmt = "J"
    /\ word' = j_type(enc.imm, enc.rd, enc.opcode)
    /\ epc' = "ret" /\ UNCHANGED <<enc, genVars, cpuVars, tbVars>>

NextEnc == EncodeR \/ EncodeI \/ EncodeS \/ EncodeB \/ EncodeU \/ EncodeJ

SpecEnc == InitEnc /\ [][NextEnc]_vars

(***************************************************************************)
(* Reference decoding of a word, per the RV32I bit layouts                 *)
(***************************************************************************)

SignExt(v, n) == IF v >= Pow2(n - 1) THEN v - Pow2(n) ELSE v

DecImmI(w) == SignExt(Field(w, 20, 12), 12)
DecImmS(w) == SignExt(Field(w, 25, 7) * 32 + Field(w, 7, 5), 12)
DecImmB(w) == SignExt(Field(w, 31, 1) * 4096 + Field(w, 7, 1) * 2048
                      + Field(w, 25, 6) * 32 + Field(w, 8, 4) * 2, 13)
DecImmU(w) == SignExt(Field(w, 12, 20), 20) * 4096
DecImmJ(w) == SignExt(Field(w, 31, 1) * 1048576 + Field(w, 12, 8) * 4096
                      + Field(w, 20, 1) * 2048 + Field(w, 21, 10) * 2, 21)

Decode(fmt, w) ==
    [fmt    |-> fmt,
     imm    |-> CASE fmt = "R" -> 0 [] fmt = "I" -> DecImmI(w) [] fmt = "S" -> DecImmS(w)
                  [] fmt = "B" -> DecImmB(w) [] fmt = "U" -> DecImmU(w)
                  [] fmt = "J" -> DecImmJ(w),
     funct7 |-> IF fmt = "R" THEN Field(w, 25, 7) ELSE 0,
     rs2    |-> IF fmt \in {"R", "S", "B"} THEN Field(w, 20, 5) ELSE 0,
     rs1    |-> IF fmt \in {"R", "I", "S", "B"} THEN Field(w, 15, 5) ELSE 0,
     funct3 |-> IF fmt \in {"R", "I", "S", "B"} THEN Field(w, 12, 3) ELSE 0,
     rd     |-> IF fmt \in {"R", "I", "U", "J"} THEN Field(w, 7, 5) ELSE 0,
     opcode |-> Field(w, 0, 7)]

\* 0, -1, the least and the greatest immediate of the field, and a mid-range one
StatedImm(fmt) ==
    CASE fmt = "R" -> {0}
      [] fmt \in {"I", "S"} -> {0, -1, -2048, 2047, 42}
      [] fmt = "B" -> {0, -1, -4096, 4094, 8}
      [] fmt = "U" -> {0, -1, -2147483647 - 1, 2147479552, 268435456}
      [] fmt = "J" -> {0, -1, -1048576, 1048574, 8}

\* the immediates a word of the format can hold
LegalImm(fmt, imm) ==
    CASE fmt = "R" -> imm = 0
      [] fmt \in {"I", "S"} -> imm \in -2048..2047
      [] fmt = "B" -> imm \in -4096..4094 /\ imm % 2 = 0
      [] fmt = "U" -> imm % 4096 = 0
      [] fmt = "J" -> imm \in -1048576..1048574 /\ imm % 2 = 0

\* C8 as stated: decoding the word of every format reproduces the operands for
\* the immediates 0, -1, least, greatest and mid-range
C8_RoundTripStated ==
    (epc = "ret" /\ enc.imm \in StatedImm(enc.fmt)) => Decode(enc.fmt, word) = enc

\* C8 (amended): decoding the word reproduces the operands, in every format, for
\* all registers and funct values and every immediate the field can hold (B, J:
\* even ones; U: multiples of 4096); the immediate -1 comes back as -1 from an
\* I or S word, as -2 from a B or J word and as -4096 from a U word, the other
\* fields unchanged
C8_RoundTrip ==
    epc = "ret" =>
        /\ word \subseteq 0..31
        /\ LegalImm(enc.fmt, enc.imm) => Decode(enc.fmt, word) = enc
        /\ enc.imm = -1 =>
              Decode(enc.fmt, word) =
                [enc EXCEPT !.imm = CASE enc.fmt \in {"B", "J"} -> -2
                                      [] enc.fmt = "U" -> -4096
                                      [] OTHER -> -1]

C8_Witness ==
    /\ epc = "ret" /\ enc.fmt = "B" /\ enc.imm = -4096 /\ enc.rs1 = 31 /\ enc.rs2 = 17
    /\ Decode("B", word) = enc

\* C9: the immediate read back from a b_type or j_type word is even, for every
\* immediate, odd or out of range included: the word is the word of the
\* immediate with bit 0 cleared, and reads back as that value wrapped to the field
C9_EvenOffset ==
    (epc = "ret" /\ enc.fmt \in {"B", "J"}) =>
        LET even == enc.imm - (enc.imm % 2)
        IN  /\ enc.fmt = "B" =>
                  /\ DecImmB(word) % 2 = 0
                  /\ DecImmB(word) = SignExt(even % 8192, 13)
                  /\ word = b_type(even, enc.rs2, enc.rs1, enc.funct3, enc.opcode)
                  /\ Decode("B", word) = [enc EXCEPT !.imm = DecImmB(word)]
            /\ enc.fmt = "J" =>
                  /\ DecImmJ(word) % 2 = 0
                  /\ DecImmJ(word) = SignExt(even % 2097152, 21)
                  /\ word = j_type(even, enc.rd, enc.opcode)
                  /\ Decode("J", word) = [enc EXCEPT !.imm = DecImmJ(word)]

C9_Witness ==
    /\ epc = "ret" /\ enc.fmt = "J" /\ enc.imm = 1048577 /\ enc.rd = 21
    /\ DecImmJ(word) = -1048576

\* C10: an i_type word is imm[11:0] | rs1 | funct3 | rd | opcode and a j_type
\* word is imm[20] | imm[10:1] | imm[11] | imm[19:12] | rd | opcode, for all
\* registers and in-range immediates; addi(x1, x0, 42) is 0x02A00093 and
\* jal(x16, 8) is 0x0080086F
C10_Layout ==
    epc = "ret" =>
        /\ (enc.fmt = "I" /\ enc.imm \in -2048..2047) =>
              /\ word \subseteq 0..31
              /\ Field(word, 20, 12) = enc.imm % 4096
              /\ Field(word, 15, 5) = enc.rs1
              /\ Field(word, 12, 3) = enc.funct3
              /\ Field(word, 7, 5) = enc.rd
              /\ Field(word, 0, 7) = enc.opcode
        /\ (enc.fmt = "J" /\ enc.imm \in -1048576..1048575) =>
              /\ word \subseteq 0..31
              /\ Field(word, 31, 1) = (enc.imm \div 1048576) % 2
              /\ Field(word, 21, 10) = (enc.imm \div 2) % 1024
              /\ Field(word, 20, 1) = (enc.imm \div 2048) % 2
              /\ Field(word, 12, 8) = (enc.imm \div 4096) % 256
              /\ Field(word, 7, 5) = enc.rd
              /\ Field(word, 0, 7) = enc.opcode
        /\ enc = [fmt |-> "I", imm |-> 42, funct7 |-> 0, rs2 |-> 0, rs1 |-> 0,
                  funct3 |-> 0, rd |-> 1, opcode |-> 19] => word = Bits(44040339)
        /\ enc = [fmt |-> "J", imm |-> 8, funct7 |-> 0, rs2 |-> 0, rs1 |-> 0,
                  funct3 |-> 0, rd |-> 16, opcode |-> 111] => word = Bits(8390767)

C10_Witness ==
    /\ epc = "ret" /\ enc.fmt = "J" /\ enc.imm = 8 /\ enc.rd = 16
    /\ word = Bits(8390767)

(***************************************************************************)
(* Mnemonic wrappers: gen_firmware.py lines 38-68                          *)
(***************************************************************************)

\* the value of a non-negative integer given by its bits (below 2^31)
Val(b) == Field(b, 0, 31)

addi(rd, rs1, imm)    == i_type(imm, rs1, 0, rd, 19)
add(rd, rs1, rs2)     == r_type(0, rs2, rs1, 0, rd, 51)
sub(rd, rs1, rs2)     == r_type(32, rs2, rs1, 0, rd, 51)
andi(rd, rs1, imm)    == i_type(imm, rs1, 7, rd, 19)
ori(rd, rs1, imm)     == i_type(imm, rs1, 6, rd, 19)
xori(rd, rs1, imm)    == i_type(imm, rs1, 4, rd, 19)
slli(rd, rs1, shamt)  == i_type(shamt, rs1, 1, rd, 19)
srli(rd, rs1, shamt)  == i_type(shamt, rs1, 5, rd, 19)
srai(rd, rs1, shamt)  == i_type(Val(BitOr(Bits(1024), Bits(shamt))), rs1, 5, rd, 19)
slti(rd, rs1, imm)    == i_type(imm, rs1, 2, rd, 19)
slt(rd, rs1, rs2)     == r_type(0, rs2, rs1, 2, rd, 51)
lui(rd, imm)          == u_type(imm, rd, 55)
auipc(rd, imm)        == u_type(imm, rd, 23)
\* sw with the base and the store data exchanged
sw_swapped(rs2, offset, rs1) == s_type(offset, rs1, rs2, 2, 35)
sw(rs2, offset, rs1)  == s_type(offset, rs2, rs1, 2, 35)
sh(rs2, offset, rs1)  == s_type(offset, rs2, rs1, 1, 35)
sb(rs2, offset, rs1)  == s_type(offset, rs2, rs1, 0, 35)
lw(rd, offset, rs1)   == i_type(offset, rs1, 2, rd, 3)
lh(rd, offset, rs1)   == i_type(offset, rs1, 1, rd, 3)
lb(rd, offset, rs1)   == i_type(offset, rs1, 0, rd, 3)
lbu(rd, offset, rs1)  == i_type(offset, rs1, 4, rd, 3)
lhu(rd, offset, rs1)  == i_type(offset, rs1, 5, rd, 3)
beq(rs1, rs2, off)    == b_type(off, rs2, rs1, 0, 99)
bne(rs1, rs2, off)    == b_type(off, rs2, rs1, 1, 99)
blt(rs1, rs2, off)    == b_type(off, rs2, rs1, 4, 99)
bge(rs1, rs2, off)    == b_type(off, rs2, rs1, 5, 99)
jal(rd, off)          == j_type(off, rd, 111)
jalr(rd, rs1, off)    == i_type(off, rs1, 0, rd, 103)
ecall                 == Bits(115)
nop                   == addi(0, 0, 0)
csrrw(rd, csr, rs1)   ==
    BitOr(Shl(Bits(csr), 20), BitOr(Shl(Bits(rs1), 15), BitOr(Shl(Bits(1), 12),
    BitOr(Shl(Bits(rd), 7), Bits(115)))))
csrrs(rd, csr, rs1)   ==
    BitOr(Shl(Bits(csr), 20), BitOr(Shl(Bits(rs1), 15), BitOr(Shl(Bits(2), 12),
    BitOr(Shl(Bits(rd), 7), Bits(115)))))

(***************************************************************************)
(* The generator script: gen_firmware.py lines 70-152                      *)
(***************************************************************************)

\* the list literal of lines 70-139; element i+1 is the word of byte address 4*i
ProgramLiteral == <<
    addi(1, 0, 42),        \* 0x00
    addi(2, 0, 10),        \* 0x04
    add(3, 1, 2),          \* 0x08
    sub(4, 1, 2),          \* 0x0C
    andi(5, 3, 255),       \* 0x10
    ori(6, 0, 85),         \* 0x14
    xori(7, 6, 255),       \* 0x18
    slli(8, 2, 4),         \* 0x1C
    srli(9, 8, 2),         \* 0x20
    slti(18, 4, 100),      \* 0x24
    slt(19, 2, 1),         \* 0x28
    lui(10, 268435456),    \* 0x2C
    sw(3, 0, 10),          \* 0x30
    lw(11, 0, 10),         \* 0x34
    sb(6, 4, 10),          \* 0x38
    lbu(12, 4, 10),        \* 0x3C
    lui(13, 536870912),    \* 0x40
    addi(14, 0, 255),      \* 0x44
    sw(14, 8, 13),         \* 0x48
    sw(3, 0, 13),          \* 0x4C
    beq(11, 3, 8),         \* 0x50
    addi(15, 0, 222),      \* 0x54
    addi(15, 0, 1),        \* 0x58
    bne(1, 2, 8),          \* 0x5C
    addi(15, 0, 222),      \* 0x60
    addi(15, 0, 2),        \* 0x64
    jal(16, 8),            \* 0x68
    addi(17, 0, 222),      \* 0x6C
    addi(17, 0, 3),        \* 0x70
    jalr(20, 16, 0),       \* 0x74
    lui(20, 536870912),    \* 0x78
    addi(20, 20, 268),     \* 0x7C
    addi(21, 0, 8),        \* 0x80
    sw(21, 0, 20),         \* 0x84
    lui(20, 536870912),    \* 0x88
    addi(20, 20, 256),     \* 0x8C
    addi(22, 0, 72),       \* 0x90
    sw(22, 0, 20),         \* 0x94
    addi(23, 0, 100),      \* 0x98
    addi(23, 23, -1),      \* 0x9C
    bne(23, 0, -4),        \* 0xA0
    auipc(20, 0),          \* 0xA4
    csrrs(21, 2816, 0),    \* 0xA8
    ecall,                 \* 0xAC
    nop,                   \* 0xB0
    jal(0, -4)             \* 0xB4
>>

\* the list index written by the patch of line 144 (program[18]), as a
\* 1-based sequence index
PatchIndex == 18 + 1

\* line 144: program[18] = jalr(x20, x16, 12)
Patch(p) == [p EXCEPT ![PatchIndex] = jalr(20, 16, 12)]

HexDigits == <<"0", "1", "2", "3", "4", "5", "6", "7",
               "8", "9", "A", "B", "C", "D", "E", "F">>

\* f"{v:0nX}" for a value below 16^n given by its bits: n hexadecimal digits,
\* most significant first
HexN(b, n) == [k \in 1..n |-> HexDigits[Field(b, 4 * (n - k), 4) + 1]]

\* a formatter that masks the word to 28 bits
Hex8_mask28(instr) == HexN(instr \cap (0..27), 8)

\* f"{instr & 0xFFFFFFFF:08X}"
Hex8(instr) == HexN(instr \cap (0..31), 8)

\* lines 70-139
BuildProgram ==
    /\ gpc = "build"
    /\ program' = ProgramLiteral
    /\ gpc' = "patch"
    /\ UNCHANGED <<gi, hexfile, stdout, encVars, cpuVars, tbVars>>

\* line 144
PatchProgram ==
    /\ gpc = "patch"
    /\ program' = Patch(program)
    /\ gpc' = "write" /\ gi' = 0
    /\ UNCHANGED <<hexfile, stdout, encVars, cpuVars, tbVars>>

\* lines 146-148: one pass of the loop over program, or its end
WriteLine ==
    /\ gpc = "write"
    /\ IF gi < Len(program)
       THEN /\ hexfile' = Append(hexfile, Hex8(program[gi + 1]))
            /\ gi' = gi + 1
            /\ UNCHANGED <<gpc, stdout>>
       ELSE /\ gpc' = "print" /\ gi' = 0
            /\ stdout' = <<Len(program)>>
            /\ UNCHANGED hexfile
    /\ UNCHANGED <<program, encVars, cpuVars, tbVars>>

\* lines 150-152: "Generated n instructions", then one line per word
PrintLine ==
    /\ gpc = "print"
    /\ IF gi < Len(program)
       THEN /\ stdout' = Append(stdout, <<HexN(Bits(gi * 4), 4), Hex8(program[gi + 1])>>)
            /\ gi' = gi + 1
            /\ UNCHANGED gpc
       ELSE /\ gpc' = "done"
            /\ UNCHANGED <<gi, stdout>>
    /\ UNCHANGED <<program, hexfile, encVars, cpuVars, tbVars>>

(***************************************************************************)
(* A core that runs the image in program order, one instruction per step.  *)
(* The core is not part of the sources; its steps follow the RV32I         *)
(* semantics that the comments of the program (lines 72-138) state.        *)
(* Register values are 32-bit two's complement, kept as signed integers.   *)
(***************************************************************************)

MinInt32 == -2147483647 - 1
MaxInt32 == 2147483647

ToBits32(x) == {i \in 0..31 : Bit(x, i) = 1}
FromBits32(b) == Field(b, 0, 31) + (IF 31 \in b THEN MinInt32 ELSE 0)

Add32(a, b) ==
    IF a >= 0 /\ b > 0 /\ a > MaxInt32 - b THEN (a + MinInt32) + (b + MinInt32)
    ELSE IF a < 0 /\ b < 0 /\ a < MinInt32 - b THEN (a - MinInt32) + (b - MinInt32)
    ELSE a + b
Sub32(a, b) == IF b = MinInt32 THEN Add32(Add32(a, MaxInt32), 1) ELSE Add32(a, -b)

\* the digit's value: the inverse of HexDigits
HexValue(c) == CHOOSE v \in 0..15 : HexDigits[v + 1] = c

\* the word a line of the image holds, as the memory loader reads it
ParseHex8(line) ==
    UNION { Shl(Bits(HexValue(line[k])), 4 * (8 - k)) : k \in 1..8 }

\* instruction memory as loaded from the image: line i is the word of address 4*i
LoadImage(image) == [i \in 1..Len(image) |-> ParseHex8(image[i])]

\* the word at pc, or nothing beyond the end of the image
Fetch(im, pc) ==
    IF pc % 4 = 0 /\ pc \div 4 < Len(im) /\ pc >= 0 THEN im[(pc \div 4) + 1] ELSE {}

LoadByte(m, a) == IF a \in DOMAIN m THEN m[a] ELSE 0
LoadWord(m, a) ==
    FromBits32(UNION { Shl(Bits(LoadByte(m, Add32(a, k))), 8 * k) : k \in 0..3 })
StoreBytes(m, a, v, n) ==
    [x \in DOMAIN m \cup {Add32(a, k) : k \in 0..(n - 1)} |->
        IF \E k \in 0..(n - 1) : x = Add32(a, k)
        THEN Field(ToBits32(v), 8 * (CHOOSE k \in 0..(n - 1) : x = Add32(a, k)), 8)
        ELSE m[x]]

\* mcycle counts modulo CycleWrap in the model
CycleWrap == 48

\* the effect of one instruction w at pc: [pc, regs, mem, cpu, taken]
Exec(w, pc, r, m, cyc) ==
    LET op  == Field(w, 0, 7)
        rd  == Field(w, 7, 5)
        f3  == Field(w, 12, 3)
        a   == r[Field(w, 15, 5)]
        b   == r[Field(w, 20, 5)]
        f7  == Field(w, 25, 7)
        sa  == Field(w, 20, 5)
        wr(v) == IF rd = 0 THEN r ELSE [r EXCEPT ![rd] = v]
        seq(rr, mm) == [pc |-> pc + 4, regs |-> rr, mem |-> mm, cpu |-> "run", jump |-> FALSE]
        goto(t, rr) == [pc |-> t, regs |-> rr, mem |-> m, cpu |-> "run", jump |-> TRUE]
        stop(why)   == [pc |-> pc, regs |-> r, mem |-> m, cpu |-> why, jump |-> FALSE]
        cond == CASE f3 = 0 -> a = b [] f3 = 1 -> a # b [] f3 = 4 -> a < b
                  [] f3 = 5 -> a >= b [] OTHER -> FALSE
    IN  CASE op = 19 ->
               (CASE f3 = 0 -> seq(wr(Add32(a, DecImmI(w))), m)
                  [] f3 = 7 -> seq(wr(FromBits32(ToBits32(a) \cap ToBits32(DecImmI(w)))), m)
                  [] f3 = 6 -> seq(wr(FromBits32(ToBits32(a) \cup ToBits32(DecImmI(w)))), m)
                  [] f3 = 4 -> seq(wr(FromBits32((ToBits32(a) \ ToBits32(DecImmI(w)))
                                        \cup (ToBits32(DecImmI(w)) \ ToBits32(a)))), m)
                  [] f3 = 1 -> seq(wr(FromBits32(Shl(ToBits32(a), sa) \cap (0..31))), m)
                  [] f3 = 5 /\ f7 = 0 ->
                        seq(wr(FromBits32({i - sa : i \in {j \in ToBits32(a) : j >= sa}})), m)
                  [] f3 = 2 -> seq(wr(IF a < DecImmI(w) THEN 1 ELSE 0), m)
                  [] OTHER -> stop("illegal"))
          [] op = 51 ->
               (CASE f3 = 0 /\ f7 = 0  -> seq(wr(Add32(a, b)), m)
                  [] f3 = 0 /\ f7 = 32 -> seq(wr(Sub32(a, b)), m)
                  [] f3 = 2 /\ f7 = 0  -> seq(wr(IF a < b THEN 1 ELSE 0), m)
                  [] OTHER -> stop("illegal"))
          [] op = 55 -> seq(wr(DecImmU(w)), m)
          [] op = 23 -> seq(wr(Add32(pc, DecImmU(w))), m)
          [] op = 35 ->
               (CASE f3 = 2 -> seq(r, StoreBytes(m, Add32(a, DecImmS(w)), b, 4))
                  [] f3 = 1 -> seq(r, StoreBytes(m, Add32(a, DecImmS(w)), b, 2))
                  [] f3 = 0 -> seq(r, StoreBytes(m, Add32(a, DecImmS(w)), b, 1))
                  [] OTHER -> stop("illegal"))
          [] op = 3 ->
               (CASE f3 = 2 -> seq(wr(LoadWord(m, Add32(a, DecImmI(w)))), m)
                  [] f3 = 4 -> seq(wr(LoadByte(m, Add32(a, DecImmI(w)))), m)
                  [] OTHER -> stop("illegal"))
          [] op = 99 -> IF cond THEN goto(pc + DecImmB(w), r) ELSE seq(r, m)
          [] op = 111 -> goto(pc + DecImmJ(w), wr(pc + 4))
          [] op = 103 /\ f3 = 0 ->
               LET t == Add32(a, DecImmI(w)) IN goto(t - (t % 2), wr(pc + 4))
          [] op = 115 /\ f3 = 2 /\ Field(w, 20, 12) = 2816 -> seq(wr(cyc), m)
          [] op = 115 /\ f3 = 0 /\ Field(w, 7, 25) = 0 -> stop("trap")
          [] OTHER -> stop("illegal")

\* the image is loaded once the script has written it
PowerOn ==
    /\ gpc = "done" /\ cpu = "off"
    /\ cpu' = "run"
    /\ imem' = LoadImage(hexfile)
    /\ UNCHANGED <<pc_if, regs, mem, mcycle, taken, encVars, genVars, tbVars>>

CpuStep ==
    /\ cpu = "run"
    /\ \E e \in {Exec(Fetch(imem, pc_if), pc_if, regs, mem, mcycle)} :
           /\ pc_if' = e.pc /\ regs' = e.regs /\ mem' = e.mem /\ cpu' = e.cpu
           /\ taken' = IF e.jump THEN taken \cup {<<pc_if, e.pc>>} ELSE taken
    /\ mcycle' = (mcycle + 1) % CycleWrap
    /\ UNCHANGED <<imem, encVars, genVars, tbVars>>

InitGen ==
    /\ GenIdle /\ CpuIdle /\ TbIdle
    /\ enc = [fmt |-> "I", imm |-> 42, funct7 |-> 0, rs2 |-> 0, rs1 |-> 0,
              funct3 |-> 0, rd |-> 1, opcode |-> 19]
    /\ epc = "call" /\ word = {}

NextGen == BuildProgram \/ PatchProgram \/ WriteLine \/ PrintLine \/ PowerOn \/ CpuStep

SpecGen == InitGen /\ [][NextGen]_vars

\* the script runs to its end and the clock of the core is free-running
FairSpecGen == SpecGen /\ WF_vars(NextGen)

\* C6 as stated: the patch replaces the JALR emitted at byte address 0x74 by
\* jalr x20,x16,12, every other word is the word emitted at its position, and
\* the length of the program is unchanged
C6_PatchStated ==
    gpc \in {"write", "print", "done"} =>
        /\ Len(program) = Len(ProgramLiteral)
        /\ ProgramLiteral[(116 \div 4) + 1] = jalr(20, 16, 0)
        /\ program[(116 \div 4) + 1] = jalr(20, 16, 12)
        /\ \A i \in 1..Len(ProgramLiteral) :
               i # (116 \div 4) + 1 => program[i] = ProgramLiteral[i]

UpperHex == {"0", "1", "2", "3", "4", "5", "6", "7", "8", "9", "A", "B", "C", "D", "E", "F"}

\* C12: the serializer writes one line per program word, in program order;
\* every line is exactly 8 uppercase hexadecimal digits, zero-padded, whose
\* value is the word masked to 32 bits; when the loop has ended the number of
\* lines is the number of instructions
C12_OneLinePerWord ==
    /\ gpc \in {"build", "patch"} => hexfile = <<>>
    /\ gpc = "write" => Len(hexfile) = gi
    /\ gpc \in {"print", "done"} => Len(hexfile) = Len(program)
    /\ \A i \in 1..Len(hexfile) :
           /\ i <= Len(program)
           /\ Len(hexfile[i]) = 8
           /\ \A k \in 1..8 : hexfile[i][k] \in UpperHex
           /\ ParseHex8(hexfile[i]) = program[i] \cap (0..31)

\* the whole image has been written: 46 lines, the first zero-padded
\* (addi x1,x0,42), line 41 with bit 31 set (bne x23,x0,-4)
C12_Witness ==
    /\ gpc = "done" /\ Len(program) = 46 /\ Len(hexfile) = 46
    /\ hexfile[1] = <<"0", "2", "A", "0", "0", "0", "9", "3">>
    /\ hexfile[41] = <<"F", "E", "0", "B", "9", "E", "E", "3">>

\* C7 as stated: run from pc = 0 with all registers zero, the patched image
\* eventually reaches the ECALL at 0xAC, having taken BEQ 0x50 -> 0x58,
\* BNE 0x5C -> 0x64, JAL 0x68 -> 0x70 and JALR 0x74 -> 0x78, with x3 = 52,
\* x11 = 52, x12 = 0x55, x15 = 2, x16 = 0x6C, x17 = 3 and x23 = 0
C7_ReachesEcall ==
    <>( /\ cpu \in {"run", "trap"} /\ pc_if = 172
        /\ {<<80, 88>>, <<92, 100>>, <<104, 112>>, <<116, 120>>} \subseteq taken
        /\ regs[3] = 52 /\ regs[11] = 52 /\ regs[12] = 85 /\ regs[15] = 2
        /\ regs[16] = 108 /\ regs[17] = 3 /\ regs[23] = 0 )

(***************************************************************************)
(* The testbench: test_brv32p_soc.py                                       *)
(*                                                                         *)
(* The DUT is a black box.  A signal value is [known, v]: v is the         *)
(* unsigned value, and known is FALSE when the value holds an unknown bit, *)
(* so that int() of it raises.  A path resolves or not in a given build.   *)
(***************************************************************************)

MaxVal == 2
MaxTimeout == 2

Known(v) == [known |-> TRUE, v |-> v]
Unknown == [known |-> FALSE, v |-> 0]

\* the values a register may show to a caller that compares it with val
Samples(val) == {Unknown} \cup {Known(v) : v \in (0..MaxVal) \cup {val}}

Ret(v) == [raised |-> "", v |-> v]
Raise(exc) == [raised |-> exc, v |-> 0]

\* int(handle.value): the unsigned value; an unknown bit raises
IntOf(s) == IF s.known THEN Ret(s.v) ELSE Raise("ValueError")

\* get_reg that reads the register file for index 0 too
get_reg_reads_x0(present, rf, idx) ==
    IF ~present THEN Raise("AttributeError") ELSE IntOf(rf[idx])

\* lines 22-25
get_reg(present, rf, idx) ==
    IF idx = 0 THEN Ret(0)
    ELSE IF ~present THEN Raise("AttributeError")
    ELSE IntOf(rf[idx])

\* the test of line 33 (wait_reg) and of line 46 (wait_reg_nonzero)
Cond(kind, v, val) == IF kind = "wait_reg" THEN v = val ELSE v # 0

\* the post-edge sample matches: the read returns and the test holds
Matches(kind, present, rf, idx, val) ==
    LET r == get_reg(present, rf, idx)
    IN  r.raised = "" /\ Cond(kind, r.v, val)

\* a loop header that runs the body once more than range(timeout) does
OneMoreIteration(i, timeout) == i <= timeout

\* for _ in range(timeout): lines 30 and 43
MoreIterations(i, timeout) == i < timeout

\* a handler that catches only the conversion error
ExceptValueError(exc) == exc = "ValueError"

\* except Exception: lines 35 and 48
ExceptException(exc) == exc \in {"AttributeError", "IndexError", "ValueError"}

\* the loop is exhausted: line 37 (wait_reg alone logs a warning), lines 38 and 50
Exhausted ==
    /\ warned' = (wkind = "wait_reg")
    /\ ok' = "False"
    /\ wpc' = "ret"

\* a waiter that samples before it awaits the first edge
WaitCallSampleFirst ==
    /\ wpc = "call"
    /\ matchAtCall' = Matches(wkind, regs_present, dregs, widx, wval)
    /\ IF Matches(wkind, regs_present, dregs, widx, wval)
       THEN ok' = "True" /\ wpc' = "ret" /\ UNCHANGED <<wi, warned>>
       ELSE IF MoreIterations(0, wtimeout)
       THEN wpc' = "await" /\ wi' = 0 /\ UNCHANGED <<ok, warned>>
       ELSE Exhausted /\ UNCHANGED wi
    /\ UNCHANGED <<wkind, widx, wval, wtimeout, sample, outcome, dutVars,
                   edges, nsamples, firstMatch, scnVars, scnHist, encVars, genVars, cpuVars>>

\* the call, up to the first await or to the return of an empty loop
WaitCall ==
    /\ wpc = "call"
    /\ matchAtCall' = Matches(wkind, regs_present, dregs, widx, wval)
    /\ IF MoreIterations(0, wtimeout)
       THEN wpc' = "await" /\ wi' = 0 /\ UNCHANGED <<ok, warned>>
       ELSE Exhausted /\ UNCHANGED wi
    /\ UNCHANGED <<wkind, widx, wval, wtimeout, sample, outcome, dutVars,
                   edges, nsamples, firstMatch, scnVars, scnHist, encVars, genVars, cpuVars>>

\* a rising edge of dut.clk while the waiter is suspended on it: the DUT moves on
\* (the observed register takes any value) and the waiter is resumed
ClockEdge ==
    /\ wpc = "await"
    /\ \E v \in Samples(wval) : dregs' = [dregs EXCEPT ![widx] = v]
    /\ edges' = edges + 1
    /\ firstMatch' = IF firstMatch = 0 /\ Matches(wkind, regs_present, dregs', widx, wval)
                     THEN edges + 1 ELSE firstMatch
    /\ seen' = {widx}
    /\ tedges' = tedges + 1
    /\ wpc' = "resumed"
    /\ UNCHANGED <<regs_present, wkind, widx, wval, wtimeout, wi, ok, warned, sample,
                   outcome, nsamples, matchAtCall, scnVars, rst_cycles, released,
                   hvisited, hsat, hraised, encVars, genVars, cpuVars>>

\* from the resumption after an edge to the next await or to the return:
\* lines 32-38 and 45-50
WaitResume ==
    /\ wpc = "resumed"
    /\ \E r \in {get_reg(regs_present, dregs, widx)} :
         /\ sample' = r
         /\ nsamples' = nsamples + 1
         /\ IF r.raised = "" /\ Cond(wkind, r.v, wval)
            THEN ok' = "True" /\ wpc' = "ret" /\ UNCHANGED <<wi, warned>>
            ELSE IF r.raised # "" /\ ~ExceptException(r.raised)
            THEN wpc' = "raised" /\ UNCHANGED <<wi, ok, warned>>
            ELSE IF MoreIterations(wi + 1, wtimeout)
            THEN wpc' = "await" /\ wi' = wi + 1 /\ UNCHANGED <<ok, warned>>
            ELSE Exhausted /\ UNCHANGED wi
    /\ UNCHANGED <<wkind, widx, wval, wtimeout, outcome, dutVars,
                   edges, firstMatch, matchAtCall, scnVars, scnHist, encVars, genVars, cpuVars>>

\* the caller: ok = await wait_reg(...); assert ok  (lines 77-78, 98-99, ...)
\* an exception leaving the waiter leaves the caller too
CallerResume ==
    /\ outcome = "running" /\ wpc \in {"ret", "raised"}
    /\ outcome' = IF wpc = "raised" THEN "error"
                  ELSE IF ok = "True" THEN "passed" ELSE "assert_failed"
    /\ wpc' = "idle"
    /\ UNCHANGED <<wkind, widx, wval, wtimeout, wi, ok, warned, sample, dutVars,
                   histVars, scnVars, scnHist, encVars, genVars, cpuVars>>

\* one call of a waiter, with any arguments, on any register file: every index
\* with one set of arguments, and indices 0 and 1 with every set
InitWait ==
    /\ \/ /\ widx \in 0..31 /\ wkind = "wait_reg" /\ wval = 1 /\ wtimeout = 1
       \/ /\ widx \in 0..1 /\ wtimeout \in 0..MaxTimeout
          /\ \/ wkind = "wait_reg" /\ wval \in 0..MaxVal
             \/ wkind = "wait_reg_nonzero" /\ wval = 0
    /\ regs_present \in BOOLEAN
    /\ \E v \in Samples(wval) : dregs = [r \in 0..31 |-> IF r = widx THEN v ELSE Known(0)]
    /\ wpc = "call" /\ wi = 0 /\ ok = "none" /\ warned = FALSE
    /\ sample = [raised |-> "", v |-> 0]
    /\ outcome = "running"
    /\ edges = 0 /\ nsamples = 0 /\ firstMatch = 0 /\ matchAtCall = FALSE
    /\ rst_cycles = 10 /\ tedges = 0 /\ released = FALSE /\ hvisited = 0 /\ hsat = 0
    /\ hraised = FALSE
    /\ seen = {}
    /\ test = 0 /\ spc = 1 /\ absent = {} /\ clock_on = TRUE /\ ncyc = 0
    /\ pins = [rst_n |-> "1", uart_rx |-> "1", gpio_in |-> [known |-> TRUE, v |-> {}]]
    /\ rdval = 0 /\ excn = "" /\ count = 0 /\ si = 0
    /\ GenIdle /\ CpuIdle
    /\ enc = [fmt |-> "I", imm |-> 42, funct7 |-> 0, rs2 |-> 0, rs1 |-> 0,
              funct3 |-> 0, rd |-> 1, opcode |-> 19]
    /\ epc = "call" /\ word = {}

NextWait == WaitCall \/ ClockEdge \/ WaitResume \/ CallerResume

SpecWait == InitWait /\ [][NextWait]_vars

Returned == wpc \in {"ret", "idle"}

\* the last sample was taken from the register file as it is now
Fresh == nsamples > 0 /\ nsamples = edges

\* C1: wait_reg never samples before the first rising edge after the call; it
\* returns True after exactly k edges, 1 <= k <= timeout, k the first edge whose
\* post-edge sample equals val, also when the register equals val at the call
C1_SampleAfterEdge ==
    wkind = "wait_reg" =>
        /\ nsamples <= edges
        /\ wpc = "resumed" => nsamples = edges - 1
        /\ wpc # "resumed" => nsamples = edges
        /\ (Returned /\ ok = "True") =>
              /\ edges = firstMatch /\ 1 <= edges /\ edges <= wtimeout
              /\ sample = Ret(wval)
        /\ (Returned /\ firstMatch # 0) => ok = "True"

C1_Witness ==
    /\ wkind = "wait_reg" /\ widx = 1 /\ matchAtCall /\ wpc = "ret" /\ ok = "True"
    /\ edges = 1 /\ firstMatch = 1

\* C2: when no post-edge sample equals val, wait_reg awaits exactly timeout
\* edges, for every timeout >= 0, and then returns False
C2_ExactBound ==
    wkind = "wait_reg" =>
        /\ edges <= wtimeout
        /\ (Returned /\ firstMatch = 0) => (ok = "False" /\ edges = wtimeout)
        /\ (Returned /\ ok = "False") => (firstMatch = 0 /\ edges = wtimeout)

C2_Witness ==
    /\ wkind = "wait_reg" /\ wpc = "ret" /\ ok = "False" /\ wtimeout = MaxTimeout
    /\ edges = MaxTimeout /\ matchAtCall

\* C3: wait_reg and wait_reg_nonzero never raise: a read that raises counts as a
\* non-match and polling goes on with the next edge, an exhausted bound is the
\* return value False, and the caller is aborted by its own assert alone
C3_NeverRaises ==
    /\ wpc # "raised"
    /\ outcome # "error"
    /\ Returned => ok \in {"True", "False"}
    /\ outcome = "assert_failed" => ok = "False"
    /\ (wpc \in {"await", "ret", "idle"} /\ Fresh /\ sample.raised # "") =>
          \/ nsamples < wtimeout /\ wpc = "await"
          \/ nsamples = wtimeout /\ Returned /\ ok = "False"

C3_Witness ==
    /\ wkind = "wait_reg_nonzero" /\ ~regs_present /\ widx = 1
    /\ sample.raised = "AttributeError" /\ wpc = "await" /\ nsamples = 1

\* C5: get_reg(dut, 0) is 0 in every state, whatever regs[0] holds and also when
\* the register file path does not resolve; for 1..31 it is the stored value
C5_ZeroRegister ==
    /\ get_reg(regs_present, dregs, 0) = Ret(0)
    /\ \A i \in 1..31 :
          (regs_present /\ dregs[i].known) => get_reg(regs_present, dregs, i) = Ret(dregs[i].v)
    /\ (Fresh /\ widx = 0) => sample = Ret(0)
    /\ (Fresh /\ widx # 0 /\ regs_present /\ dregs[widx].known) => sample = Ret(dregs[widx].v)

C5_Witness ==
    /\ widx = 0 /\ Fresh /\ sample = Ret(0) /\ ~regs_present /\ dregs[0] = Known(MaxVal)

\* C14 as stated: wait_reg_nonzero samples only after each edge, returns True
\* at the first post-edge sample that is not 0, and on exhausting the bound
\* logs a warning and returns False after exactly timeout edges
C14_NonzeroContract ==
    wkind = "wait_reg_nonzero" =>
        /\ wpc = "resumed" => nsamples = edges - 1
        /\ wpc # "resumed" => nsamples = edges
        /\ (Returned /\ ok = "True") =>
              /\ edges = firstMatch /\ 1 <= edges /\ edges <= wtimeout
              /\ sample.raised = "" /\ sample.v # 0
        /\ (Returned /\ firstMatch # 0) => ok = "True"
        /\ (Returned /\ ok = "False") => (firstMatch = 0 /\ edges = wtimeout /\ warned)

(***************************************************************************)
(* The twelve scenarios: test_brv32p_soc.py lines 55-251. A scenario is the *)
(* list of its statements; the DUT is a black box whose observable values   *)
(* are chosen when they are read.                                           *)
(***************************************************************************)

\* the iteration bounds standing for timeout=50000 and timeout=100000
DefaultTimeout == 2
LoopTimeout == 3

Stmt(op, a, b, c) == [op |-> op, a |-> a, b |-> b, c |-> c]

\* cocotb.start_soon(clock.start())
Clk == Stmt("clock", 0, 0, 0)
\* dut.<sig>.value = v
Drive(sig, v) == Stmt("drive", sig, v, 0)
\* await ClockCycles(dut.clk, n); await RisingEdge(dut.clk) is one cycle
Cycles(n) == Stmt("cycles", n, 0, 0)
\* ok = await wait_reg(dut, idx, val, timeout)
Wait(idx, val, timeout) == Stmt("wait", idx, val, timeout)
\* assert ok
AssertOk == Stmt("assert_ok", 0, 0, 0)
\* get_reg(dut, idx) outside any try
ReadReg(idx) == Stmt("read", "regs", idx, 0)
\* int(dut.<path>.value) outside any try
ReadSig(path) == Stmt("read", path, 0, 0)
\* assert <value just read> <rel> k
AssertVal(rel, k) == Stmt("assert", rel, k, 0)
\* for i in range(n): try: if <pred>(int(dut.<path>[i].value)): count += 1
\* except Exception: pass
Scan(path, n, pred) == Stmt("scan", path, n, pred)
\* assert count > 0
AssertCount == Stmt("assert_count", 0, 0, 0)

\* 0xCAFEBABE
CafeBabe == BitOr(Shl(Bits(51966), 16), Bits(47806))

\* reset_dut that returns as soon as it has released the reset
reset_dut_no_last_edge(cycles) ==
    << Drive("rst_n", "0"), Drive("gpio_in", Known({})), Drive("uart_rx", "1"),
       Cycles(cycles), Drive("rst_n", "1") >>

\* lines 13-19
reset_dut(cycles) ==
    << Drive("rst_n", "0"), Drive("gpio_in", Known({})), Drive("uart_rx", "1"),
       Cycles(cycles), Drive("rst_n", "1"), Cycles(1) >>

\* the prologue of test_02 .. test_12: start the clock, await reset_dut(dut)
Prologue == <<Clk>> \o reset_dut(10)

test_01_reset ==
    << Clk, Drive("rst_n", "0"), Drive("gpio_in", Known({})), Drive("uart_rx", "1"),
       Cycles(10), ReadSig("pc_if"), AssertVal("eq", 0) >>

test_02_alu_pipeline ==
    Prologue \o << Wait(3, 52, DefaultTimeout), AssertOk,
       ReadReg(1), AssertVal("eq", 42), ReadReg(2), AssertVal("eq", 10),
       ReadReg(3), AssertVal("eq", 52), ReadReg(4), AssertVal("eq", 32),
       ReadReg(5), AssertVal("eq", 52), ReadReg(6), AssertVal("eq", 85),
       ReadReg(7), AssertVal("eq", 170), ReadReg(8), AssertVal("eq", 160),
       ReadReg(9), AssertVal("eq", 40) >>

test_03_forwarding == Prologue \o << Wait(3, 52, DefaultTimeout), AssertOk >>

test_04_load_store_cache ==
    Prologue \o << Wait(11, 52, DefaultTimeout), AssertOk, ReadReg(11),
                   Wait(12, 85, DefaultTimeout), AssertOk, ReadReg(12) >>

test_05_branches == Prologue \o << Wait(15, 2, DefaultTimeout), AssertOk, ReadReg(15) >>

test_06_jal ==
    Prologue \o << Wait(17, 3, DefaultTimeout), AssertOk,
                   ReadReg(16), AssertVal("ne", 0), ReadReg(17), ReadReg(16) >>

test_07_loop_bp_training ==
    Prologue \o << Wait(23, 0, LoopTimeout), AssertOk, Scan("bht", 256, "ne1"),
                   AssertCount >>

test_08_icache ==
    Prologue \o << Wait(3, 52, DefaultTimeout), Scan("valid_mem", 64 * 2, "truthy"),
                   AssertCount >>

test_09_gpio_input ==
    Prologue \o << Cycles(20), Drive("gpio_in", Known(CafeBabe)), Cycles(5),
                   ReadSig("gpio_in_sync"), AssertVal("eq", CafeBabe) >>

test_10_csr_mcycle == Prologue \o << Cycles(100), ReadSig("mcycle"), AssertVal("gt", 0) >>

test_11_load_use_stall == Prologue \o << Wait(11, 52, DefaultTimeout), AssertOk >>

test_12_pipeline_throughput ==
    Prologue \o << Wait(23, 0, LoopTimeout), ReadSig("mcycle"), ReadSig("minstret") >>

Tests == 1..12

\* a call of reset_dut on its own, with any number of cycles, the clock running
ResetCall == 13

Script(t) ==
    CASE t = 1 -> test_01_reset
      [] t = 2 -> test_02_alu_pipeline
      [] t = 3 -> test_03_forwarding
      [] t = 4 -> test_04_load_store_cache
      [] t = 5 -> test_05_branches
      [] t = 6 -> test_06_jal
      [] t = 7 -> test_07_loop_bp_training
      [] t = 8 -> test_08_icache
      [] t = 9 -> test_09_gpio_input
      [] t = 10 -> test_10_csr_mcycle
      [] t = 11 -> test_11_load_use_stall
      [] t = 12 -> test_12_pipeline_throughput
      [] t = ResetCall -> <<Clk>> \o reset_dut(rst_cycles)
      [] OTHER -> <<>>

\* the hierarchy paths a scenario reads
ReadsOf(t) ==
    {Script(t)[k].a : k \in {j \in DOMAIN Script(t) : Script(t)[j].op \in {"read", "scan"}}}
    \cup (IF \E k \in DOMAIN Script(t) : Script(t)[k].op = "wait" THEN {"regs"} ELSE {})

\* the values the firmware leaves in the registers the scenarios compare
FirmwareValues == {42, 10, 52, 32, 85, 170, 160, 40, 3}

\* what a register may show when it is read for the first time since an edge
RegValues == UNION {Samples(v) : v \in FirmwareValues}

\* x & 0xFFFFFFFF
Mask32(x) == Field(BitAnd(x, 0..31), 0, 32)

\* a 32-bit port with unknown bits; a known one holds its value as a set of bits
UnknownBits == [known |-> FALSE, v |-> {}]

\* what a scalar signal may show when it is read
SigSamples(path) ==
    CASE path = "pc_if" -> {Unknown, Known(0), Known(4)}
      [] path = "gpio_in_sync" -> {UnknownBits, Known({}), pins.gpio_in}
      [] OTHER -> {Unknown, Known(0), Known(1), Known(MaxVal)}

\* an array element that this build does not have
Missing == [known |-> FALSE, v |-> -1]

\* what one element of bht (2 bits) or of valid_mem (1 bit) may show
ElemSamples(path) ==
    IF path = "bht" THEN {Missing, Unknown} \cup {Known(v) : v \in 0..3}
    ELSE {Missing, Unknown, Known(0), Known(1)}

\* int(dut.<path>.value): the path may not resolve, the value may be unknown
ReadPath(path, s) == IF path \in absent THEN Raise("AttributeError") ELSE IntOf(s)

\* int(dut.<path>[i].value): the array or the element may not resolve, the
\* value may be unknown
ReadElem(path, s) ==
    IF path \in absent THEN Raise("AttributeError")
    ELSE IF s = Missing THEN Raise("IndexError")
    ELSE IntOf(s)

\* the element is there, is fully known, and is not the BHT default 2'b01
\* (bht) or is a set valid bit (valid_mem)
Satisfies(path, s) ==
    /\ path \notin absent /\ s.known
    /\ IF path = "bht" THEN s.v \in {0, 2, 3} ELSE s.v = 1

\* the predicate of line 181 applied in both scans
Pred_truthy(p, v) == v # 0

\* lines 160 and 181
Pred(p, v) == IF p = "ne1" THEN v # 1 ELSE v # 0

\* lines 65, 87, 140, 202, 215
Rel(rel, v, k) ==
    CASE rel = "eq" -> v = k
      [] rel = "ne" -> v # k
      [] rel = "gt" -> v > k

Running == test \in Tests \cup {ResetCall} /\ outcome = "running" /\ wpc = "idle"
Cur == Script(test)[spc]
At(op) == Running /\ spc <= Len(Script(test)) /\ Cur.op = op

\* the statement has completed without an exception
Advance == spc' = spc + 1 /\ UNCHANGED <<outcome, excn>>
\* an exception leaves the scenario
Abort(kind, e) == outcome' = kind /\ excn' = e /\ UNCHANGED spc

RunStartClock ==
    /\ At("clock")
    /\ clock_on' = TRUE
    /\ Advance
    /\ UNCHANGED <<test, absent, pins, ncyc, rdval, count, si, dutVars, waitVars,
                   histVars, scnHist, encVars, genVars, cpuVars>>

RunDrive ==
    /\ At("drive")
    /\ pins' = [pins EXCEPT ![Cur.a] = Cur.b]
    /\ released' = (released \/ (Cur.a = "rst_n" /\ Cur.b = "1"))
    /\ Advance
    /\ UNCHANGED <<test, absent, clock_on, ncyc, rdval, count, si, dutVars, waitVars,
                   histVars, rst_cycles, tedges, hvisited, hsat, hraised, encVars, genVars, cpuVars>>

\* a rising edge of dut.clk while the scenario is suspended in ClockCycles
RunCycleEdge ==
    /\ At("cycles") /\ clock_on
    /\ seen' = {}
    /\ tedges' = tedges + 1
    /\ IF ncyc + 1 = Cur.a THEN ncyc' = 0 /\ Advance
       ELSE ncyc' = ncyc + 1 /\ UNCHANGED <<spc, outcome, excn>>
    /\ UNCHANGED <<test, absent, pins, clock_on, rdval, count, si, dregs, regs_present,
                   waitVars, histVars, rst_cycles, released, hvisited, hsat, hraised,
                   encVars, genVars, cpuVars>>

\* the call of wait_reg binds its arguments
RunWaitCall ==
    /\ At("wait")
    /\ wkind' = "wait_reg" /\ widx' = Cur.a /\ wval' = Cur.b /\ wtimeout' = Cur.c
    /\ wpc' = "call" /\ wi' = 0 /\ warned' = FALSE /\ sample' = Ret(0)
    /\ edges' = 0 /\ nsamples' = 0 /\ firstMatch' = 0 /\ matchAtCall' = FALSE
    /\ UNCHANGED <<ok, outcome, scnVars, scnHist, dutVars, encVars, genVars, cpuVars>>

\* the waiter has returned, or an exception has left it
RunWaitReturn ==
    /\ test \in Tests /\ outcome = "running" /\ wpc \in {"ret", "raised"}
    /\ wpc' = "idle"
    /\ IF wpc = "raised" THEN Abort("error", sample.raised) ELSE Advance
    /\ UNCHANGED <<test, absent, pins, clock_on, ncyc, rdval, count, si, dutVars,
                   wkind, widx, wval, wtimeout, wi, ok, warned, sample,
                   histVars, scnHist, encVars, genVars, cpuVars>>

RunAssertOk ==
    /\ At("assert_ok")
    /\ IF ok = "True" THEN Advance ELSE Abort("assert_failed", "AssertionError")
    /\ UNCHANGED <<test, absent, pins, clock_on, ncyc, rdval, count, si, dutVars,
                   waitVars, histVars, scnHist, encVars, genVars, cpuVars>>

\* a read outside any try: lines 64, 86, 112, 116, 128, 140, 141, 201, 214, 244, 245
RunRead ==
    /\ At("read")
    /\ IF Cur.a = "regs"
       THEN /\ \E v \in (IF Cur.b \in seen THEN {dregs[Cur.b]} ELSE RegValues) :
                 dregs' = [dregs EXCEPT ![Cur.b] = v]
            /\ seen' = seen \cup {Cur.b}
            /\ \E r \in {get_reg(regs_present, dregs', Cur.b)} :
                 IF r.raised # "" THEN Abort("error", r.raised) /\ UNCHANGED rdval
                 ELSE rdval' = r.v /\ Advance
       ELSE /\ \E s \in SigSamples(Cur.a) : \E r \in {ReadPath(Cur.a, s)} :
                 IF r.raised # "" THEN Abort("error", r.raised) /\ UNCHANGED rdval
                 ELSE /\ rdval' = IF Cur.a \in {"mcycle", "minstret"} THEN Mask32(r.v)
                                  ELSE r.v
                      /\ Advance
            /\ UNCHANGED <<dregs, seen>>
    /\ UNCHANGED <<test, absent, pins, clock_on, ncyc, count, si, regs_present,
                   waitVars, histVars, scnHist, encVars, genVars, cpuVars>>

RunAssertVal ==
    /\ At("assert")
    /\ IF Rel(Cur.a, rdval, Cur.b) THEN Advance
       ELSE Abort("assert_failed", "AssertionError")
    /\ UNCHANGED <<test, absent, pins, clock_on, ncyc, rdval, count, si, dutVars,
                   waitVars, histVars, scnHist, encVars, genVars, cpuVars>>

\* one iteration of a guarded scan: lines 157-163 and 178-184
RunScan ==
    /\ At("scan")
    /\ \E s \in ElemSamples(Cur.a) : \E r \in {ReadElem(Cur.a, s)} :
         /\ count' = (IF si = 0 THEN 0 ELSE count)
                      + (IF r.raised = "" /\ Pred(Cur.c, r.v) THEN 1 ELSE 0)
         /\ hsat' = hsat + (IF Satisfies(Cur.a, s) THEN 1 ELSE 0)
         /\ hraised' = (hraised \/ r.raised # "")
    /\ hvisited' = hvisited + 1
    /\ IF si + 1 = Cur.b THEN si' = 0 /\ Advance
       ELSE si' = si + 1 /\ UNCHANGED <<spc, outcome, excn>>
    /\ UNCHANGED <<test, absent, pins, clock_on, ncyc, rdval, dutVars,
                   waitVars, histVars, rst_cycles, tedges, released, encVars, genVars, cpuVars>>

\* lines 164 and 186
RunAssertCount ==
    /\ At("assert_count")
    /\ IF count > 0 THEN Advance ELSE Abort("assert_failed", "AssertionError")
    /\ UNCHANGED <<test, absent, pins, clock_on, ncyc, rdval, count, si, dutVars,
                   waitVars, histVars, scnHist, encVars, genVars, cpuVars>>

\* the coroutine returns: the scenario has passed
RunEnd ==
    /\ Running /\ spc = Len(Script(test)) + 1
    /\ outcome' = "passed"
    /\ UNCHANGED <<scnVars, dutVars, waitVars, histVars, scnHist, encVars, genVars, cpuVars>>

\* one scenario on one build: at most one of the paths it reads does not resolve
InitTb ==
    /\ test \in Tests
    /\ absent \in {{}} \cup {{p} : p \in ReadsOf(test)}
    /\ regs_present = ("regs" \notin absent)
    /\ dregs = [r \in 0..31 |-> Unknown] /\ seen = {}
    /\ spc = 1 /\ clock_on = FALSE /\ ncyc = 0
    /\ pins = [rst_n |-> "z", uart_rx |-> "z", gpio_in |-> UnknownBits]
    /\ rdval = 0 /\ excn = "" /\ count = 0 /\ si = 0
    /\ wkind = "wait_reg" /\ widx = 0 /\ wval = 0 /\ wtimeout = 0 /\ wpc = "idle"
    /\ wi = 0 /\ ok = "none" /\ warned = FALSE /\ sample = Ret(0)
    /\ outcome = "running"
    /\ edges = 0 /\ nsamples = 0 /\ firstMatch = 0 /\ matchAtCall = FALSE
    /\ rst_cycles = 10 /\ tedges = 0 /\ released = FALSE /\ hvisited = 0 /\ hsat = 0
    /\ hraised = FALSE
    /\ GenIdle /\ CpuIdle
    /\ enc = [fmt |-> "I", imm |-> 42, funct7 |-> 0, rs2 |-> 0, rs1 |-> 0,
              funct3 |-> 0, rd |-> 1, opcode |-> 19]
    /\ epc = "call" /\ word = {}

NextTb ==
    \/ RunStartClock \/ RunDrive \/ RunCycleEdge
    \/ RunWaitCall \/ WaitCall \/ ClockEdge \/ WaitResume \/ RunWaitReturn
    \/ RunAssertOk \/ RunRead \/ RunAssertVal \/ RunScan \/ RunAssertCount \/ RunEnd

SpecTb == InitTb /\ [][NextTb]_vars

\* C4: in every scenario, a read of DUT state whose path does not resolve is
\* skipped: no scenario is ever left by the AttributeError of such a read
C4_UnresolvedReadSkipped == ~(outcome = "error" /\ excn = "AttributeError")

(***************************************************************************)
(* Calls of the mnemonic wrappers: gen_firmware.py lines 38-68             *)
(***************************************************************************)

Mn0 == {"ecall", "nop"}

\* the call mn(a, b, c) with its positional arguments, as the source passes them
Apply(mn, a, b, c) ==
    CASE mn = "addi" -> addi(a, b, c)   [] mn = "add" -> add(a, b, c)
      [] mn = "sub" -> sub(a, b, c)     [] mn = "andi" -> andi(a, b, c)
      [] mn = "ori" -> ori(a, b, c)     [] mn = "xori" -> xori(a, b, c)
      [] mn = "slli" -> slli(a, b, c)   [] mn = "srli" -> srli(a, b, c)
      [] mn = "srai" -> srai(a, b, c)   [] mn = "slti" -> slti(a, b, c)
      [] mn = "slt" -> slt(a, b, c)     [] mn = "lui" -> lui(a, b)
      [] mn = "auipc" -> auipc(a, b)    [] mn = "sw" -> sw(a, b, c)
      [] mn = "sh" -> sh(a, b, c)       [] mn = "sb" -> sb(a, b, c)
      [] mn = "lw" -> lw(a, b, c)       [] mn = "lh" -> lh(a, b, c)
      [] mn = "lb" -> lb(a, b, c)       [] mn = "lbu" -> lbu(a, b, c)
      [] mn = "lhu" -> lhu(a, b, c)     [] mn = "beq" -> beq(a, b, c)
      [] mn = "bne" -> bne(a, b, c)     [] mn = "blt" -> blt(a, b, c)
      [] mn = "bge" -> bge(a, b, c)     [] mn = "jal" -> jal(a, b)
      [] mn = "jalr" -> jalr(a, b, c)   [] mn = "ecall" -> ecall
      [] mn = "nop" -> nop              [] mn = "csrrw" -> csrrw(a, b, c)
      [] mn = "csrrs" -> csrrs(a, b, c)

\* in-range immediates of each kind
Imm12 == {-2048, -1, 0, 1, 42, 255, 1365, 2047}
Shamt == 0..31
OffB == {-4096, -4, -2, 0, 2, 8, 1366, 4094}
OffJ == {-1048576, -4, -2, 0, 8, 2048, 4096, 699050, 1048574}
UpperImm == {-2147483647 - 1, -4096, 0, 4096, 268435456, 536870912, 2147479552}
CsrNum == {0, 1, 768, 2816, 2818, 3072, 4095}

Call(mn, a, b, c) == [fmt |-> "M", mn |-> mn, a |-> a, b |-> b, c |-> c]

\* two register arguments and a third argument: each register runs over rset
\* while the other sits at 0 or 31
Star(mn, rset, third) ==
    {Call(mn, a, b, c) : a \in rset, b \in {0, 31}, c \in third}
    \cup {Call(mn, a, b, c) : a \in {0, 31}, b \in rset, c \in third}

\* the same with the registers first and third: mn(reg, x, reg)
StarMid(mn, rset, mid) ==
    {Call(mn, a, b, c) : a \in rset, b \in mid, c \in {0, 31}}
    \cup {Call(mn, a, b, c) : a \in {0, 31}, b \in mid, c \in rset}

\* the calls of every wrapper with its register arguments in rset
MnCalls(rset) ==
    UNION {Star(mn, rset, Imm12) : mn \in {"addi", "andi", "ori", "xori", "slti", "jalr"}}
    \cup UNION {Star(mn, rset, Shamt) : mn \in {"slli", "srli", "srai"}}
    \cup UNION {Star(mn, rset, rset) : mn \in {"add", "sub", "slt"}}
    \cup UNION {Star(mn, rset, OffB) : mn \in {"beq", "bne", "blt", "bge"}}
    \cup UNION {StarMid(mn, rset, Imm12) :
                   mn \in {"sw", "sh", "sb", "lw", "lh", "lb", "lbu", "lhu"}}
    \cup UNION {StarMid(mn, rset, CsrNum) : mn \in {"csrrw", "csrrs"}}
    \cup {Call(mn, a, b, 0) : mn \in {"lui", "auipc"}, a \in rset, b \in UpperImm}
    \cup {Call("jal", a, b, 0) : a \in rset, b \in OffJ}
    \cup {Call(mn, 0, 0, 0) : mn \in Mn0}

InitMn == enc \in MnCalls(RegIdx) /\ epc = "call" /\ word = {} /\ GenIdle /\ CpuIdle /\ TbIdle

CallMnemonic ==
    /\ epc = "call" /\ enc.fmt = "M"
    /\ word' = Apply(enc.mn, enc.a, enc.b, enc.c)
    /\ epc' = "ret" /\ UNCHANGED <<enc, genVars, cpuVars, tbVars>>

NextMn == CallMnemonic

SpecMn == InitMn /\ [][NextMn]_vars

(***************************************************************************)
(* Reference RV32I encoder: the unprivileged ISA's instruction formats and *)
(* its opcode / funct3 / funct7 table                                      *)
(***************************************************************************)

\* bits hi..lo of the two's complement form of v, placed at bit `at` and up
Slice(v, hi, lo, at) == {at + (i - lo) : i \in {j \in lo..hi : Bit(v, j) = 1}}

RefR(f7, rs2, rs1, f3, rd, opc) ==
    Slice(f7, 6, 0, 25) \cup Slice(rs2, 4, 0, 20) \cup Slice(rs1, 4, 0, 15)
    \cup Slice(f3, 2, 0, 12) \cup Slice(rd, 4, 0, 7) \cup Slice(opc, 6, 0, 0)
RefI(imm, rs1, f3, rd, opc) ==
    Slice(imm, 11, 0, 20) \cup Slice(rs1, 4, 0, 15) \cup Slice(f3, 2, 0, 12)
    \cup Slice(rd, 4, 0, 7) \cup Slice(opc, 6, 0, 0)
RefS(imm, rs2, rs1, f3, opc) ==
    Slice(imm, 11, 5, 25) \cup Slice(rs2, 4, 0, 20) \cup Slice(rs1, 4, 0, 15)
    \cup Slice(f3, 2, 0, 12) \cup Slice(imm, 4, 0, 7) \cup Slice(opc, 6, 0, 0)
RefB(imm, rs2, rs1, f3, opc) ==
    Slice(imm, 12, 12, 31) \cup Slice(imm, 10, 5, 25) \cup Slice(rs2, 4, 0, 20)
    \cup Slice(rs1, 4, 0, 15) \cup Slice(f3, 2, 0, 12) \cup Slice(imm, 4, 1, 8)
    \cup Slice(imm, 11, 11, 7) \cup Slice(opc, 6, 0, 0)
RefU(imm, rd, opc) == Slice(imm, 31, 12, 12) \cup Slice(rd, 4, 0, 7) \cup Slice(opc, 6, 0, 0)
RefJ(imm, rd, opc) ==
    Slice(imm, 20, 20, 31) \cup Slice(imm, 10, 1, 21) \cup Slice(imm, 11, 11, 20)
    \cup Slice(imm, 19, 12, 12) \cup Slice(rd, 4, 0, 7) \cup Slice(opc, 6, 0, 0)

\* funct3 of the instructions that have one
RefF3(mn) ==
    CASE mn \in {"addi", "add", "sub", "sb", "lb", "beq", "jalr"} -> 0
      [] mn \in {"slli", "sh", "lh", "bne", "csrrw"} -> 1
      [] mn \in {"slti", "slt", "sw", "lw", "csrrs"} -> 2
      [] mn \in {"xori", "lbu", "blt"} -> 4
      [] mn \in {"srli", "srai", "lhu", "bge"} -> 5
      [] mn = "ori" -> 6
      [] mn = "andi" -> 7

\* the word the ISA assigns to the instruction the call names: rd, rs1 (base or
\* first source), rs2 (store data or second source), immediate or csr number
Ref(mn, a, b, c) ==
    CASE mn \in {"addi", "andi", "ori", "xori", "slti"} -> RefI(c, b, RefF3(mn), a, 19)
      [] mn \in {"slli", "srli"} -> RefR(0, c, b, RefF3(mn), a, 19)
      [] mn = "srai" -> RefR(32, c, b, RefF3(mn), a, 19)
      [] mn \in {"add", "slt"} -> RefR(0, c, b, RefF3(mn), a, 51)
      [] mn = "sub" -> RefR(32, c, b, RefF3(mn), a, 51)
      [] mn = "lui" -> RefU(b, a, 55)
      [] mn = "auipc" -> RefU(b, a, 23)
      [] mn \in {"sw", "sh", "sb"} -> RefS(b, a, c, RefF3(mn), 35)
      [] mn \in {"lw", "lh", "lb", "lbu", "lhu"} -> RefI(b, c, RefF3(mn), a, 3)
      [] mn \in {"beq", "bne", "blt", "bge"} -> RefB(c, b, a, RefF3(mn), 99)
      [] mn = "jal" -> RefJ(b, a, 111)
      [] mn = "jalr" -> RefI(c, b, 0, a, 103)
      [] mn = "ecall" -> Slice(115, 6, 0, 0)
      [] mn = "nop" -> RefI(0, 0, 0, 0, 19)
      [] mn \in {"csrrw", "csrrs"} -> RefI(b, c, RefF3(mn), a, 115)

\* C11: every mnemonic wrapper returns, for all registers 0..31 and in-range
\* immediates, the word of the reference RV32I encoder: the standard opcode,
\* funct3 and funct7, and every named argument in its own field
C11_WrappersMatchReference ==
    (epc = "ret" /\ enc.fmt = "M") =>
        /\ word \subseteq 0..31
        /\ word = Ref(enc.mn, enc.a, enc.b, enc.c)

\* sw(x3, -1, x31) has been encoded with the store data in rs2 and the base in rs1
C11_Witness ==
    /\ epc = "ret" /\ enc = Call("sw", 3, -1, 31)
    /\ Field(word, 20, 5) = 3 /\ Field(word, 15, 5) = 31 /\ Field(word, 0, 7) = 35
    /\ word = Ref("sw", 3, -1, 31)

\* the scan statement of a scenario that has one
ScanAt(t) == CHOOSE k \in DOMAIN Script(t) : Script(t)[k].op = "scan"

\* C15: the scans of test_07 (256 BHT entries) and test_08 (64 x 2 valid bits)
\* visit every index, skip each element whose read raises, and end with a
\* count equal to the number of resolvable elements that satisfy the predicate;
\* a missing element neither ends the scan early nor aborts the scenario
C15_ScanCountsResolvable ==
    test \in {7, 8} =>
        /\ outcome # "error"
        /\ count = hsat
        /\ spc < ScanAt(test) => hvisited = 0
        /\ spc = ScanAt(test) => (hvisited = si /\ si < Script(test)[spc].b)
        /\ spc > ScanAt(test) => hvisited = (IF test = 7 THEN 256 ELSE 64 * 2)
        /\ outcome = "assert_failed" =>
              \/ spc < ScanAt(test) /\ ok = "False"
              \/ spc > ScanAt(test) /\ hsat = 0

\* a scan of the BHT that met elements it could not read has visited all 256
\* entries and the scenario has passed on the entries it could read
C15_Witness ==
    /\ test = 7 /\ outcome = "passed" /\ hvisited = 256 /\ hraised
    /\ count = hsat /\ count > 0 /\ count < 256

\* C18 as stated: in every scenario test_02..test_12, once one of its waits
\* has returned False the scenario can only finish by an assertion failure
C18_TimeoutIsFailure ==
    (test \in 2..12 /\ ok = "False" /\ outcome # "running") => outcome = "assert_failed"

(***************************************************************************)
(* reset_dut called on its own                                             *)
(***************************************************************************)

MaxCycles == 12

InitReset ==
    /\ test = ResetCall /\ rst_cycles \in 1..MaxCycles
    /\ absent = {} /\ regs_present = TRUE
    /\ dregs = [r \in 0..31 |-> Unknown] /\ seen = {}
    /\ spc = 1 /\ clock_on = FALSE /\ ncyc = 0
    /\ pins = [rst_n |-> "z", uart_rx |-> "z", gpio_in |-> UnknownBits]
    /\ rdval = 0 /\ excn = "" /\ count = 0 /\ si = 0
    /\ wkind = "wait_reg" /\ widx = 0 /\ wval = 0 /\ wtimeout = 0 /\ wpc = "idle"
    /\ wi = 0 /\ ok = "none" /\ warned = FALSE /\ sample = Ret(0)
    /\ outcome = "running"
    /\ edges = 0 /\ nsamples = 0 /\ firstMatch = 0 /\ matchAtCall = FALSE
    /\ tedges = 0 /\ released = FALSE /\ hvisited = 0 /\ hsat = 0 /\ hraised = FALSE
    /\ GenIdle /\ CpuIdle
    /\ enc = [fmt |-> "I", imm |-> 42, funct7 |-> 0, rs2 |-> 0, rs1 |-> 0,
              funct3 |-> 0, rd |-> 1, opcode |-> 19]
    /\ epc = "call" /\ word = {}

NextReset == RunStartClock \/ RunDrive \/ RunCycleEdge \/ RunEnd

SpecReset == InitReset /\ [][NextReset]_vars

IdleInputs == pins.gpio_in = Known({}) /\ pins.uart_rx = "1"

\* C13: reset_dut(dut, cycles) drives rst_n = 0, gpio_in = 0 and uart_rx = 1
\* before the first edge; rst_n stays low and the inputs unchanged for exactly
\* `cycles` edges; rst_n is set to 1 on resumption from the last of them, and
\* the call returns after exactly one further edge, rst_n still 1
C13_ResetSequence ==
    test = ResetCall =>
        /\ tedges = 0 => (~released /\ pins.rst_n \in {"z", "0"})
        /\ (tedges >= 1 /\ tedges < rst_cycles) =>
              (pins.rst_n = "0" /\ IdleInputs /\ ~released)
        /\ (tedges = rst_cycles /\ ~released) => (pins.rst_n = "0" /\ IdleInputs)
        /\ released => (pins.rst_n = "1" /\ IdleInputs /\ tedges >= rst_cycles)
        /\ tedges > rst_cycles => released
        /\ tedges <= rst_cycles + 1
        /\ outcome = "passed" => (tedges = rst_cycles + 1 /\ pins.rst_n = "1")
        /\ outcome \in {"running", "passed"}

\* the default call has returned: 11 edges, reset released
C13_Witness ==
    /\ test = ResetCall /\ rst_cycles = 10 /\ outcome = "passed"
    /\ tedges = 11 /\ pins.rst_n = "1" /\ released

(***************************************************************************)
(* The scenarios on a DUT that is the core above running the generated     *)
(* image: held in reset while rst_n is low, then at most one instruction,  *)
(* in program order, per rising edge of dut.clk                            *)
(***************************************************************************)

\* int() of a register of the core: the unsigned value; no register of this
\* program ever holds a value with bit 31 set
Unsigned(v) == IF v >= 0 THEN v ELSE (2 * MaxInt32 + 2) + v

\* the core across one rising edge: [pc, regs, mem, cpu, jump]
CoreEdge ==
    IF pins.rst_n # "1"
    THEN {[pc |-> 0, regs |-> [r \in 0..31 |-> 0], mem |-> <<>>, cpu |-> "run", jump |-> FALSE]}
    ELSE IF cpu # "run"
    THEN {[pc |-> pc_if, regs |-> regs, mem |-> mem, cpu |-> cpu, jump |-> FALSE]}
    ELSE {[pc |-> pc_if, regs |-> regs, mem |-> mem, cpu |-> cpu, jump |-> FALSE],
          Exec(Fetch(imem, pc_if), pc_if, regs, mem, mcycle)}

\* what the edge does to the DUT, and what the testbench can see of it afterwards
DutEdge ==
    /\ cpu # "off" /\ clock_on
    /\ \E e \in CoreEdge :
           /\ pc_if' = e.pc /\ regs' = e.regs /\ mem' = e.mem /\ cpu' = e.cpu
           /\ taken' = IF pins.rst_n # "1" THEN {}
                       ELSE IF e.jump THEN taken \cup {<<pc_if, e.pc>>} ELSE taken
           /\ dregs' = [r \in 0..31 |-> Known(Unsigned(e.regs[r]))]
    /\ mcycle' = IF pins.rst_n # "1" THEN 0 ELSE (mcycle + 1) % CycleWrap
    /\ seen' = 0..31
    /\ tedges' = tedges + 1
    /\ UNCHANGED <<imem, regs_present, encVars, genVars>>

\* an edge while the scenario is suspended in ClockCycles
SocCycleEdge ==
    /\ At("cycles")
    /\ DutEdge
    /\ IF ncyc + 1 = Cur.a THEN ncyc' = 0 /\ Advance
       ELSE ncyc' = ncyc + 1 /\ UNCHANGED <<spc, outcome, excn>>
    /\ UNCHANGED <<test, absent, pins, clock_on, rdval, count, si,
                   waitVars, histVars, rst_cycles, released, hvisited, hsat, hraised>>

\* an edge while the waiter is suspended on it
SocWaitEdge ==
    /\ wpc = "await"
    /\ DutEdge
    /\ edges' = edges + 1
    /\ firstMatch' = IF firstMatch = 0 /\ Matches(wkind, regs_present, dregs', widx, wval)
                     THEN edges + 1 ELSE firstMatch
    /\ wpc' = "resumed"
    /\ UNCHANGED <<wkind, widx, wval, wtimeout, wi, ok, warned, sample,
                   outcome, nsamples, matchAtCall, scnVars, rst_cycles, released,
                   hvisited, hsat, hraised>>

\* the scenarios whose waits depend on how far the firmware has run
SocTests == {2, 7, 12}

InitSoc ==
    /\ test \in SocTests
    /\ absent = {} /\ regs_present = TRUE
    /\ dregs = [r \in 0..31 |-> Unknown] /\ seen = {}
    /\ spc = 1 /\ clock_on = FALSE /\ ncyc = 0
    /\ pins = [rst_n |-> "z", uart_rx |-> "z", gpio_in |-> UnknownBits]
    /\ rdval = 0 /\ excn = "" /\ count = 0 /\ si = 0
    /\ wkind = "wait_reg" /\ widx = 0 /\ wval = 0 /\ wtimeout = 0 /\ wpc = "idle"
    /\ wi = 0 /\ ok = "none" /\ warned = FALSE /\ sample = Ret(0)
    /\ outcome = "running"
    /\ edges = 0 /\ nsamples = 0 /\ firstMatch = 0 /\ matchAtCall = FALSE
    /\ rst_cycles = 10 /\ tedges = 0 /\ released = FALSE /\ hvisited = 0 /\ hsat = 0
    /\ hraised = FALSE
    /\ GenIdle /\ CpuIdle
    /\ enc = [fmt |-> "I", imm |-> 42, funct7 |-> 0, rs2 |-> 0, rs1 |-> 0,
              funct3 |-> 0, rd |-> 1, opcode |-> 19]
    /\ epc = "call" /\ word = {}

\* the image is generated and loaded, then the simulation runs the scenario
NextSoc ==
    \/ BuildProgram \/ PatchProgram \/ WriteLine \/ PrintLine \/ PowerOn
    \/ RunStartClock \/ RunDrive \/ SocCycleEdge
    \/ RunWaitCall \/ WaitCall \/ SocWaitEdge \/ WaitResume \/ RunWaitReturn
    \/ RunAssertOk \/ RunRead \/ RunAssertVal \/ RunScan \/ RunAssertCount \/ RunEnd

SpecSoc == InitSoc /\ [][NextSoc]_vars

\* the wait of the scenario has returned True
WaitReturnedTrue ==
    /\ ok = "True"
    /\ \/ wpc = "ret"
       \/ wpc = "idle" /\ \E k \in 1..(spc - 1) : Script(test)[k].op = "wait"

\* C16 as stated: in test_07 and test_12, on a DUT whose x23 reads 0 after
\* reset, wait_reg(dut, 23, 0) returns True only after the countdown loop has
\* run to completion: x23 loaded with 100 at 0x98, decremented to 0 by the loop
\* at 0x9C/0xA0, the core past the loop
C16_TrueOnlyAfterLoop ==
    (test \in {7, 12} /\ WaitReturnedTrue) =>
        /\ regs[23] = 0
        /\ <<160, 156>> \in taken
        /\ pc_if >= 164

\* the checks list of test_02: lines 80-84
AluChecks == <<42, 10, 52, 32, 52, 85, 170, 160, 40>>

\* C17 as stated: in test_02, on a DUT that executes the firmware in program
\* order with at most one register write per edge, when wait_reg(dut, 3, 52)
\* returns True the registers x1..x9 hold 42, 10, 52, 32, 52, 0x55, 0xAA, 160
\* and 40, and none of the final assertions fails
C17_AluResultsReady ==
    (test = 2 /\ WaitReturnedTrue) =>
        /\ \A r \in 1..9 : regs[r] = AluChecks[r]
        /\ outcome # "assert_failed"

(***************************************************************************)
(* A regression run: the twelve scenarios one after another in the same    *)
(* simulation.  The pins keep what was last driven on them; the clock a    *)
(* scenario started ends with the scenario; nothing the testbench has read *)
(* carries over.                                                           *)
(***************************************************************************)

InitRun ==
    /\ test = 1
    /\ absent = {} /\ regs_present = TRUE
    /\ dregs = [r \in 0..31 |-> Unknown] /\ seen = {}
    /\ spc = 1 /\ clock_on = FALSE /\ ncyc = 0
    /\ pins = [rst_n |-> "z", uart_rx |-> "z", gpio_in |-> UnknownBits]
    /\ rdval = 0 /\ excn = "" /\ count = 0 /\ si = 0
    /\ wkind = "wait_reg" /\ widx = 0 /\ wval = 0 /\ wtimeout = 0 /\ wpc = "idle"
    /\ wi = 0 /\ ok = "none" /\ warned = FALSE /\ sample = Ret(0)
    /\ outcome = "running"
    /\ edges = 0 /\ nsamples = 0 /\ firstMatch = 0 /\ matchAtCall = FALSE
    /\ rst_cycles = 10 /\ tedges = 0 /\ released = FALSE /\ hvisited = 0 /\ hsat = 0
    /\ hraised = FALSE
    /\ GenIdle /\ CpuIdle
    /\ enc = [fmt |-> "I", imm |-> 42, funct7 |-> 0, rs2 |-> 0, rs1 |-> 0,
              funct3 |-> 0, rd |-> 1, opcode |-> 19]
    /\ epc = "call" /\ word = {}

\* a scenario has ended, passed or failed: the runner starts the next one
NextScenario ==
    /\ test \in 1..11 /\ outcome \in {"passed", "assert_failed", "error"}
    /\ test' = test + 1 /\ spc' = 1 /\ outcome' = "running"
    /\ clock_on' = FALSE /\ ncyc' = 0 /\ rdval' = 0 /\ excn' = "" /\ count' = 0 /\ si' = 0
    /\ dregs' = [r \in 0..31 |-> Unknown] /\ seen' = {}
    /\ wkind' = "wait_reg" /\ widx' = 0 /\ wval' = 0 /\ wtimeout' = 0 /\ wpc' = "idle"
    /\ wi' = 0 /\ ok' = "none" /\ warned' = FALSE /\ sample' = Ret(0)
    /\ edges' = 0 /\ nsamples' = 0 /\ firstMatch' = 0 /\ matchAtCall' = FALSE
    /\ tedges' = 0 /\ hvisited' = 0 /\ hsat' = 0 /\ hraised' = FALSE
    /\ UNCHANGED <<absent, pins, regs_present, rst_cycles, released,
                   encVars, genVars, cpuVars>>

NextRun == NextTb \/ NextScenario

SpecRun == InitRun /\ [][NextRun]_vars

\* C19 as stated: in a run of test_01..test_12 one after another, once rst_n
\* has been driven to 1 no later step of any scenario drives it to 0 again
C19_ResetWriteOnce == released => pins.rst_n = "1"

(***************************************************************************)
(* Immediates outside the range of their field                             *)
(***************************************************************************)

\* C20: no encoder rejects an out-of-range immediate: the word is the reference
\* encoding of the immediate reduced modulo the range of the field (I, S: 2^12;
\* B: 2^13; J: 2^21; U: 2^32 with the low 12 bits cleared), it lies in
\* 0..2^32-1, and its opcode, funct and register fields are the operands given
C20_OutOfRangeWraps ==
    epc = "ret" =>
        /\ word \subseteq 0..31
        /\ enc.fmt = "I" =>
              word = RefI(enc.imm % 4096, enc.rs1, enc.funct3, enc.rd, enc.opcode)
        /\ enc.fmt = "S" =>
              word = RefS(enc.imm % 4096, enc.rs2, enc.rs1, enc.funct3, enc.opcode)
        /\ enc.fmt = "B" =>
              word = RefB(enc.imm % 8192, enc.rs2, enc.rs1, enc.funct3, enc.opcode)
        /\ enc.fmt = "J" => word = RefJ(enc.imm % 2097152, enc.rd, enc.opcode)
        /\ enc.fmt = "U" =>
              /\ word = RefU(enc.imm - (enc.imm % 4096), enc.rd, enc.opcode)
              /\ Field(word, 12, 19) = (enc.imm \div 4096) % 524288
              /\ (31 \in word) = (enc.imm < 0)
        /\ enc.fmt \in {"I", "S", "B", "U", "J"} =>
              [Decode(enc.fmt, word) EXCEPT !.imm = 0] = [enc EXCEPT !.imm = 0]

\* i_type has been called with 4101 = 4096 + 5 and has stored 5
C20_Witness ==
    /\ epc = "ret" /\ enc.fmt = "I" /\ enc.imm = 4101 /\ ~LegalImm("I", enc.imm)
    /\ Field(word, 20, 12) = 5 /\ Field(word, 7, 5) = enc.rd

====
